---- MODULE Spec2Model ----
(***************************************************************************)
(* Model of the hospital_mock security-review service:                     *)
(*   app/services/analysis_service.py  (enrichment, summary, persistence)  *)
(*   app/services/report_service.py    (record loading, report composing)  *)
(*   app/services/github_service.py    (clone into the shared directory)   *)
(*   app/services/repo_info_service.py (README / policy extraction)        *)
(*   app/routes/main.py                (HTTP handlers, process-wide plan)  *)
(*                                                                         *)
(* Python dicts are functions with a string domain, lists are sequences,   *)
(* None is the empty tuple and an optional text t is the 1-tuple <<t>>.    *)
(***************************************************************************)
EXTENDS Integers, Sequences, FiniteSets, TLC

VARIABLES
    \* ---- normaliser harness (pure functions of analysis_service.py) ----
    npc,            \* position of the harness: "input", "enriched", "summarized"
    in_findings,    \* the findings list handed to _enrich_findings
    findings_dict,  \* data/findings_dictionary.json: [exists, data: keyword -> entry]
    enriched,       \* result of _enrich_findings
    summary,        \* result of _generate_summary
    \* ---- the running service ----
    CURRENT_PLAN,       \* routes/main.py: the process-wide plan
    now,                \* the wall clock read by datetime.now()
    next_uuid,          \* the next value uuid.uuid4() returns
    pulled_code,        \* PulledCode/: repo name -> url whose content is checked out there
    scanned_results,    \* data/scanned_results/: scan_id -> visible content of <scan_id>.json
    generated_reports,  \* data/generated_reports/: file name -> document
    areq,               \* the /api/analyze request of each worker
    rreq,               \* the /api/generate-report requests in flight, per worker
    n_reports,          \* number of /api/generate-report requests received
    saved_log,          \* history: scan_id -> record of each completed _save_scan_results
    plan_log,           \* history: the /api/change-plan and /api/get-plan calls and their responses
    \* ---- composer harness (report_service._local_generate as a pure function) ----
    cpc,                \* "input" or "composed"
    c_scan_results,     \* the scan_results dict handed to _local_generate
    c_content,          \* the parts _local_generate returns
    \* ---- formatter harness (the block loop of _format_and_save_report) ----
    fpc,                \* "input" or "formatted"
    f_content,          \* the content string, as a sequence of characters
    f_document          \* the blocks added to the document, or the error raised

normVars == <<npc, in_findings, enriched, summary>>

serviceVars == <<CURRENT_PLAN, now, next_uuid, pulled_code, scanned_results,
                 generated_reports, areq, rreq, n_reports, saved_log>>

composeVars == <<cpc, c_scan_results, c_content>>

formatVars == <<fpc, f_content, f_document>>

otherVars == <<plan_log, composeVars, formatVars>>

vars == <<normVars, findings_dict, serviceVars, otherVars>>

----------------------------------------------------------------------------
(* Bounds and input universes *)

MaxFindings == 2

Keywords == {"SQLI", "XSS"}

FindingFields == {"shortform_keyword", "severity", "title"}

FindingValues ==
    [shortform_keyword |-> Keywords,
     severity          |-> {"HIGH", "LOW"},
     title             |-> {"finding title"}]

DictFields == {"severity", "title"}

DictValues ==
    [severity |-> {"CRITICAL"},
     title    |-> {"canonical title"}]

\* all dicts whose keys are a subset of fields and whose values fit vals
PartialDicts(fields, vals) ==
    UNION { { f \in [D -> UNION {vals[k] : k \in D}] : \A k \in D : f[k] \in vals[k] }
            : D \in SUBSET fields }

FindingUniverse == PartialDicts(FindingFields, FindingValues)

DictEntryUniverse == PartialDicts(DictFields, DictValues)

\* the dictionary file: os.path.exists(dict_path) and, when it exists, its JSON content
DictAbsent == [exists |-> FALSE, data |-> [k \in {} |-> 0]]

DictUniverse ==
    { [exists |-> TRUE, data |-> d] :
        d \in UNION { [D -> DictEntryUniverse] : D \in SUBSET Keywords } }

SeqsUpTo(S, n) == UNION { [1..k -> S] : k \in 0..n }

----------------------------------------------------------------------------
(* Python dict helpers *)

EmptyDict == [k \in {} |-> 0]

\* d.get(k, default)
Get(d, k, default) == IF k \in DOMAIN d THEN d[k] ELSE default

\* d[k] = v
Put(d, k, v) == [x \in DOMAIN d \cup {k} |-> IF x = k THEN v ELSE d[x]]

\* {**a, **b}: keys of both, b's value where both define a key
Spread(a, b) == [k \in DOMAIN a \cup DOMAIN b |-> IF k \in DOMAIN b THEN b[k] ELSE a[k]]

----------------------------------------------------------------------------
(* analysis_service.py: _enrich_findings *)

\* keyword = finding.get('shortform_keyword'); keyword in findings_dict
KeywordInDict(finding, dict) ==
    /\ "shortform_keyword" \in DOMAIN finding
    /\ finding["shortform_keyword"] \in DOMAIN dict

EnrichOne(finding, dict) ==
    IF KeywordInDict(finding, dict)
    THEN Spread(finding, dict[finding["shortform_keyword"]])
    ELSE finding

\* an EnrichLoop that forgets the else branch (findings missing from the dictionary are dropped)
RECURSIVE EnrichLoop_DropMiss(_, _, _)
EnrichLoop_DropMiss(findings, dict, acc) ==
    IF findings = <<>> THEN acc
    ELSE EnrichLoop_DropMiss(Tail(findings), dict,
            IF KeywordInDict(Head(findings), dict)
            THEN Append(acc, EnrichOne(Head(findings), dict))
            ELSE acc)

RECURSIVE EnrichLoop(_, _, _)
EnrichLoop(findings, dict, acc) ==
    IF findings = <<>> THEN acc
    ELSE EnrichLoop(Tail(findings), dict, Append(acc, EnrichOne(Head(findings), dict)))

_enrich_findings(findings, dict_file) ==
    IF ~dict_file.exists THEN findings
    ELSE EnrichLoop(findings, dict_file.data, <<>>)

----------------------------------------------------------------------------
(* analysis_service.py: _generate_summary *)

\* a Severity that has no default for a finding without severity
Severity_NoDefault(finding) == Get(finding, "severity", "HIGH")

Severity(finding) == Get(finding, "severity", "UNKNOWN")

RECURSIVE SeverityCounts(_, _)
SeverityCounts(findings, counts) ==
    IF findings = <<>> THEN counts
    ELSE LET severity == Severity(Head(findings))
         IN  SeverityCounts(Tail(findings),
                            Put(counts, severity, Get(counts, severity, 0) + 1))

_generate_summary(findings) ==
    [total_findings     |-> Len(findings),
     severity_breakdown |-> SeverityCounts(findings, EmptyDict)]

----------------------------------------------------------------------------
(* Values of the running service *)

MaxReports == 1

AnalyzeWorkers == {"a1", "a2"}

ReportWorkers == {"r1"}

None == <<>>

Some(t) == <<t>>

Plans == {"basic", "full"}

\* a GitHub URL https://github.com/<owner>/<stem>[.git]
UrlClinic == [owner |-> "org", stem |-> "clinic", dotgit |-> TRUE]

UrlPortal == [owner |-> "org", stem |-> "portal", dotgit |-> FALSE]

Urls == {UrlClinic, UrlPortal}

NoUrl == [owner |-> "", stem |-> "", dotgit |-> FALSE]

SectorHints == {"healthcare"}

\* the optional fields of the JSON body of POST /api/analyze
RequestBodies == {EmptyDict, [plan |-> "full"]}

\* chunks the buffered file object holds back before it writes them through
FlushEvery == 4

\* the working tree git.Repo.clone_from(url, ...) checks out
Remote(url) ==
    IF url = UrlClinic THEN
        [readme        |-> Some(<<" ", "E", "H", "R">>),
         policies      |-> [k \in {"SECURITY.md"} |-> <<"p", "o", "l">>],
         code_findings |-> <<[shortform_keyword |-> "SQLI", severity |-> "HIGH"],
                             [shortform_keyword |-> "XSS"]>>]
    ELSE
        [readme        |-> None,
         policies      |-> EmptyDict,
         code_findings |-> <<>>]

\* the findings dictionary shipped in data/
ServiceDict ==
    [exists |-> TRUE,
     data   |-> [k \in {"SQLI"} |-> [severity |-> "CRITICAL", title |-> "SQL injection"]]]

----------------------------------------------------------------------------
(* github_service.py: clone_repository *)

\* github_url.split('/')[-1].replace('.git', '')
RepoName(url) == url.stem

----------------------------------------------------------------------------
(* repo_info_service.py: RepoInfoExtractor.extract on the shared directory *)

\* _extract_readme: the content of the first README file that exists, else None
_extract_readme(pulled, repo_path) ==
    IF repo_path \in DOMAIN pulled THEN Remote(pulled[repo_path]).readme ELSE None

\* _extract_policies: {} when nothing is found
_extract_policies(pulled, repo_path) ==
    IF repo_path \in DOMAIN pulled THEN Remote(pulled[repo_path]).policies ELSE EmptyDict

extract(pulled, repo_path) ==
    [readme        |-> _extract_readme(pulled, repo_path),
     policies      |-> _extract_policies(pulled, repo_path),
     dependencies  |-> EmptyDict,
     documentation |-> EmptyDict]

\* CodeT5Analyzer.analyze(repo_path, repo_info): the findings of the tree at repo_path
analyze(pulled, repo_path) ==
    IF repo_path \in DOMAIN pulled THEN Remote(pulled[repo_path]).code_findings ELSE <<>>

----------------------------------------------------------------------------
(* json.dump / json.load of a scan record *)

RecordKeys == <<"scan_id", "timestamp", "repository_path", "sector_hint",
                "plan_used", "repository_info", "findings", "summary">>

\* Python None is written as null, a str as a JSON string
JsonEncodeOptional(v) ==
    IF v = None THEN [j |-> "null"] ELSE [j |-> "string", s |-> v[1]]

JsonDecodeOptional(e) ==
    IF e.j = "null" THEN None ELSE Some(e.s)

JsonEncode(key, v) ==
    IF key = "repository_info"
    THEN [readme        |-> JsonEncodeOptional(v.readme),
          policies      |-> v.policies,
          dependencies  |-> v.dependencies,
          documentation |-> v.documentation]
    ELSE v

JsonDecode(key, e) ==
    IF key = "repository_info"
    THEN [readme        |-> JsonDecodeOptional(e.readme),
          policies      |-> e.policies,
          dependencies  |-> e.dependencies,
          documentation |-> e.documentation]
    ELSE e

\* the chunks json.dump writes, in order: "{", one "key: value" per key, "}"
JsonDump(results) ==
    LET keys == SelectSeq(RecordKeys, LAMBDA k : k \in DOMAIN results)
    IN  <<[t |-> "{"]>>
        \o [i \in 1..Len(keys) |->
                [t |-> "pair", key |-> keys[i], value |-> JsonEncode(keys[i], results[keys[i]])]]
        \o <<[t |-> "}"]>>

JsonWellFormed(chunks) ==
    /\ Len(chunks) >= 2
    /\ chunks[1].t = "{"
    /\ chunks[Len(chunks)].t = "}"
    /\ \A i \in 2..(Len(chunks) - 1) : chunks[i].t = "pair"

\* json.load: the parsed object, or ok = FALSE for json.JSONDecodeError
JsonLoad(chunks) ==
    IF JsonWellFormed(chunks)
    THEN [ok    |-> TRUE,
          value |-> [k \in { chunks[i].key : i \in 2..(Len(chunks) - 1) } |->
                        LET i == CHOOSE j \in 2..(Len(chunks) - 1) : chunks[j].key = k
                        IN  JsonDecode(k, chunks[i].value)]]
    ELSE [ok |-> FALSE, value |-> EmptyDict]

----------------------------------------------------------------------------
(* The record store: analysis_service._save_scan_results and               *)
(* report_service._load_scan_results share data/scanned_results/<id>.json  *)

\* a results path shared by every scan
ResultsPath_Shared(scan_id) == scan_id * 0

\* os.path.join(results_dir, f'{scan_id}.json')
ResultsPath(scan_id) == scan_id

_load_scan_results(store, scan_id) ==
    IF ResultsPath(scan_id) \notin DOMAIN store
    THEN [outcome |-> "FileNotFoundError", value |-> EmptyDict]
    ELSE LET parsed == JsonLoad(store[ResultsPath(scan_id)])
         IN  IF parsed.ok
             THEN [outcome |-> "ok", value |-> parsed.value]
             ELSE [outcome |-> "JSONDecodeError", value |-> EmptyDict]

----------------------------------------------------------------------------
(* POST /api/analyze: routes/main.py analyze_repository, one step per      *)
(* access to state shared between requests                                 *)

NoResponse == [status |-> 0]

EmptyInfo ==
    [readme |-> None, policies |-> EmptyDict, dependencies |-> EmptyDict,
     documentation |-> EmptyDict]

IdleAnalysis ==
    [pc |-> "idle", github_url |-> NoUrl, sector_hint |-> "", plan |-> "",
     repo_path |-> "", scan_id |-> 0, repo_info |-> EmptyInfo,
     scan_results |-> EmptyDict, response |-> NoResponse]

ErrorResponse(message) == [status |-> 500, message |-> message]

\* analyze_repository: data = request.get_json(); plan = data.get('plan', CURRENT_PLAN);
\* clone_repository: shutil.rmtree(self.pulled_code_dir); os.makedirs(...)
AnalyzeReceive(a) ==
    /\ areq[a].pc = "idle"
    /\ \E url \in Urls, hint \in SectorHints, body \in RequestBodies :
        areq' = [areq EXCEPT ![a] =
                    [IdleAnalysis EXCEPT !.pc = "clone_from",
                                         !.github_url = url,
                                         !.sector_hint = hint,
                                         !.plan = Get(body, "plan", CURRENT_PLAN)]]
    /\ pulled_code' = EmptyDict
    /\ UNCHANGED <<normVars, otherVars, findings_dict, CURRENT_PLAN, now, next_uuid,
                   scanned_results, generated_reports, rreq, n_reports, saved_log>>

\* clone_repository: git.Repo.clone_from(github_url, clone_path); git refuses a
\* destination that already exists and is not empty, and the remote may fail
CloneFrom(a) ==
    /\ areq[a].pc = "clone_from"
    /\ LET clone_path == RepoName(areq[a].github_url)
       IN  \E remote_ok \in BOOLEAN :
            IF remote_ok /\ clone_path \notin DOMAIN pulled_code
            THEN /\ pulled_code' = Put(pulled_code, clone_path, areq[a].github_url)
                 /\ areq' = [areq EXCEPT ![a].pc = "extract",
                                         ![a].repo_path = clone_path]
            ELSE /\ pulled_code' = pulled_code
                 /\ areq' = [areq EXCEPT ![a] =
                                [@ EXCEPT !.pc = "done",
                                          !.response =
                                            ErrorResponse(<<"Failed to clone repository",
                                                IF remote_ok
                                                THEN "destination path already exists"
                                                ELSE "remote failed">>)]]
    /\ UNCHANGED <<normVars, otherVars, findings_dict, CURRENT_PLAN, now, next_uuid,
                   scanned_results, generated_reports, rreq,
                   n_reports, saved_log>>

\* analyze_codebase: scan_id = str(uuid.uuid4()); repo_info = self.repo_extractor.extract(repo_path)
Extract(a) ==
    /\ areq[a].pc = "extract"
    /\ areq' = [areq EXCEPT ![a].pc = "analyze",
                            ![a].scan_id = next_uuid,
                            ![a].repo_info = extract(pulled_code, areq[a].repo_path)]
    /\ next_uuid' = next_uuid + 1
    /\ UNCHANGED <<normVars, otherVars, findings_dict, CURRENT_PLAN, now, pulled_code,
                   scanned_results, generated_reports, rreq,
                   n_reports, saved_log>>

\* the response of a request that failed, with the locals of the handler gone
AnalysisFailed(req, message) ==
    [IdleAnalysis EXCEPT !.pc = "done",
                         !.github_url = req.github_url,
                         !.sector_hint = req.sector_hint,
                         !.plan = req.plan,
                         !.response = ErrorResponse(message)]

\* analyze_codebase: the analyzer reads the tree (and may raise if it finds none),
\* the findings are enriched and the scan_results dict is built;
\* _save_scan_results: open(results_path, 'w') creates or truncates the file
Analyze(a) ==
    /\ areq[a].pc = "analyze"
    /\ \E raises \in BOOLEAN :
        IF raises /\ areq[a].repo_path \notin DOMAIN pulled_code
        THEN /\ areq' = [areq EXCEPT ![a] = AnalysisFailed(@, <<"Analysis failed">>)]
             /\ scanned_results' = scanned_results
        ELSE LET code_findings == analyze(pulled_code, areq[a].repo_path)
                 enriched_findings == _enrich_findings(code_findings, findings_dict)
             IN  /\ areq' = [areq EXCEPT
                            ![a].pc = "save_write",
                            ![a].scan_results =
                                [scan_id         |-> areq[a].scan_id,
                                 timestamp       |-> now,
                                 repository_path |-> areq[a].repo_path,
                                 sector_hint     |-> areq[a].sector_hint,
                                 plan_used       |-> areq[a].plan,
                                 repository_info |-> areq[a].repo_info,
                                 findings        |-> enriched_findings,
                                 summary         |-> _generate_summary(enriched_findings)]]
                 /\ scanned_results' =
                        Put(scanned_results, ResultsPath(areq[a].scan_id), <<>>)
    /\ UNCHANGED <<normVars, otherVars, findings_dict, CURRENT_PLAN, now, next_uuid, pulled_code,
                   generated_reports, rreq, n_reports, saved_log>>

\* _save_scan_results: json.dump writes chunk by chunk into the buffered file;
\* each time the buffer fills, the next FlushEvery chunks become visible
SaveFlush(a) ==
    /\ areq[a].pc = "save_write"
    /\ LET path == ResultsPath(areq[a].scan_id)
           chunks == JsonDump(areq[a].scan_results)
           n == Len(scanned_results[path]) + FlushEvery
       IN  /\ n < Len(chunks)
           /\ scanned_results' = Put(scanned_results, path, SubSeq(chunks, 1, n))
    /\ UNCHANGED <<normVars, otherVars, findings_dict, CURRENT_PLAN, now, next_uuid, pulled_code,
                   generated_reports, areq, rreq, n_reports,
                   saved_log>>

\* _save_scan_results: leaving the with block flushes the rest and closes the
\* file; analyze_repository then answers with the scan id
SaveClose(a) ==
    /\ areq[a].pc = "save_write"
    /\ scanned_results' = Put(scanned_results, ResultsPath(areq[a].scan_id),
                              JsonDump(areq[a].scan_results))
    /\ saved_log' = Put(saved_log, areq[a].scan_id, areq[a].scan_results)
    /\ areq' = [areq EXCEPT ![a] =
                    [IdleAnalysis EXCEPT
                        !.pc = "done",
                        !.github_url = areq[a].github_url,
                        !.sector_hint = areq[a].sector_hint,
                        !.plan = areq[a].plan,
                        !.scan_id = areq[a].scan_id,
                        !.response =
                            [status         |-> 200,
                             scan_id        |-> areq[a].scan_id,
                             plan_used      |-> areq[a].plan,
                             total_findings |-> areq[a].scan_results.summary.total_findings]]]
    /\ UNCHANGED <<normVars, otherVars, findings_dict, CURRENT_PLAN, now, next_uuid, pulled_code,
                   generated_reports, rreq, n_reports>>

----------------------------------------------------------------------------
(* report_service.py: templates and the local report generator *)

ReportTypes == {"regulatory_compliance", "technical_operational", "business_focused"}

\* _load_template: template_mapping
template_mapping ==
    [regulatory_compliance |-> "regulatory_compliance_template.md",
     technical_operational |-> "technical_operational_template.md",
     business_focused      |-> "business_focused_template.md"]

\* the files of TEMPLATES_DIR and their text
TemplatesDir ==
    [f \in {"regulatory_compliance_template.md", "technical_operational_template.md",
            "business_focused_template.md"} |->
        IF f = "regulatory_compliance_template.md" THEN <<"#", " ", "R", "C">>
        ELSE IF f = "technical_operational_template.md" THEN <<"T", "O">>
        ELSE <<"B", "F">>]

_load_template(report_type) ==
    IF report_type \notin DOMAIN template_mapping
    THEN [outcome |-> "ValueError", message |-> "Unknown report type", value |-> <<>>]
    ELSE IF template_mapping[report_type] \notin DOMAIN TemplatesDir
    THEN [outcome |-> "FileNotFoundError", message |-> "Template not found", value |-> <<>>]
    ELSE [outcome |-> "ok", message |-> "", value |-> TemplatesDir[template_mapping[report_type]]]

\* report_type.replace('_', ' ').title()
TitleCase(report_type) ==
    IF report_type = "regulatory_compliance" THEN "Regulatory Compliance"
    ELSE IF report_type = "technical_operational" THEN "Technical Operational"
    ELSE IF report_type = "business_focused" THEN "Business Focused"
    ELSE "Marketing Fluff"

ReadmeExcerptLimit == 1200

SnippetLimit == 800

PolicyExcerptLimit == 1000

Whitespace == {" ", "\n", "\t"}

\* str.strip() on a text given as a sequence of characters
RECURSIVE LStrip(_)
LStrip(s) == IF s # <<>> /\ Head(s) \in Whitespace THEN LStrip(Tail(s)) ELSE s

RECURSIVE RStrip(_)
RStrip(s) ==
    IF s # <<>> /\ s[Len(s)] \in Whitespace THEN RStrip(SubSeq(s, 1, Len(s) - 1)) ELSE s

Strip(s) == RStrip(LStrip(s))

\* s[:n]
Take(s, n) == SubSeq(s, 1, IF Len(s) < n THEN Len(s) ELSE n)

\* d.get(k), as an optional
Opt(d, k) == IF k \in DOMAIN d THEN Some(d[k]) ELSE None

\* a or b, for optional strings
OrElse(a, b) == IF a # None /\ a[1] # "" THEN a ELSE b

\* keys of repo_info['found'] with k.startswith('README')
StartsWithREADME(k) == k \in {"README", "README.md", "README.MD", "README.rst"}

\* one element of parts: a fixed line or f-string (named by its text, with ',' for
\* ';' and "code fence" for the three backticks), and what it interpolates
Part(kind, text) == [kind |-> kind, text |-> text]

\* the Executive Summary lines of _local_generate
ExecutiveSummary(scan_results) ==
    LET repo_info == Get(scan_results, "repo_info", EmptyDict)
        found == Get(repo_info, "found", EmptyDict)
        readmes == { k \in DOMAIN found : StartsWithREADME(k) }
        readme_text == IF readmes = {} THEN None
                       ELSE Opt(found[CHOOSE k \in readmes : TRUE], "content")
    IN  <<Part("## Executive Summary", <<>>)>> \o
        ( IF readme_text # None /\ readme_text[1] # <<>>
          THEN <<Part("Context from repository README:", <<>>),
                 Part("readme excerpt",
                      <<Take(Strip(readme_text[1]), ReadmeExcerptLimit),
                        IF Len(readme_text[1]) > ReadmeExcerptLimit THEN "..." ELSE "">>)>>
          ELSE <<Part("No README found, executive summary is derived from scan findings and templates.", <<>>)>> )

\* the keys of severity_breakdown in insertion order: first occurrence in findings
RECURSIVE SeverityOrder(_, _)
SeverityOrder(findings, seen) ==
    IF findings = <<>> THEN seen
    ELSE LET s == Severity(Head(findings))
         IN  SeverityOrder(Tail(findings),
                           IF \E i \in 1..Len(seen) : seen[i] = s THEN seen ELSE Append(seen, s))

ScanSummary(scan_results) ==
    LET summary_ == Get(scan_results, "summary", EmptyDict)
        severity == Get(summary_, "severity_breakdown", EmptyDict)
        order == SelectSeq(SeverityOrder(Get(scan_results, "findings", <<>>), <<>>),
                           LAMBDA s : s \in DOMAIN severity)
    IN  <<Part("## Scan Summary", <<>>),
          Part("- Total findings: {}", <<Get(summary_, "total_findings", 0)>>)>> \o
        [i \in 1..Len(order) |-> Part("- {sev}: {count}", <<order[i], severity[order[i]]>>)]

\* the lines of one finding
FindingLines(idx, f) ==
    LET title == OrElse(Opt(f, "title"), Opt(f, "shortform_keyword"))
        short == Opt(f, "shortform_keyword")
        path == OrElse(Opt(f, "file_path"), Some("N/A"))
        line == Opt(f, "line_number")
        sev == Opt(f, "severity")
        desc == OrElse(Opt(f, "description"), Some(""))
        snippet == Get(f, "context_snippet", <<>>)
        remediation == OrElse(Opt(f, "remediation"), Some("Refer to template remediation."))
        compliance == Get(f, "compliance", <<>>)
    IN  <<Part("### {idx}. {title} ({short})", <<idx, title, short>>),
          Part("- Severity: {sev}", <<sev>>),
          Part("- Location: {path}:{line}", <<path, line>>)>> \o
        ( IF desc[1] # "" THEN <<Part("- Description: {desc}", <<desc>>)>> ELSE <<>> ) \o
        ( IF snippet # <<>>
          THEN <<Part("**Evidence (code snippet):**", <<>>),
                 Part("code fence", <<>>),
                 Part("snippet", <<Take(Strip(snippet), SnippetLimit)>>),
                 Part("code fence", <<>>)>>
          ELSE <<>> ) \o
        <<Part("- Recommendation: {remediation}", <<remediation>>)>> \o
        ( IF compliance # <<>>
          THEN <<Part("- Compliance mappings: {}", <<compliance>>)>> ELSE <<>> ) \o
        <<Part("newline", <<>>)>>

RECURSIVE FindingsLoop(_, _)
FindingsLoop(idx, findings) ==
    IF findings = <<>> THEN <<>>
    ELSE FindingLines(idx, Head(findings)) \o FindingsLoop(idx + 1, Tail(findings))

\* enumerate(findings) without the start index 1
DetailedFindings_FromZero(scan_results) ==
    LET findings == Get(scan_results, "findings", <<>>)
    IN  <<Part("## Detailed Findings and Analysis", <<>>)>> \o
        ( IF findings = <<>>
          THEN <<Part("No findings detected during automated analysis.", <<>>)>>
          ELSE FindingsLoop(0, findings) )

DetailedFindings(scan_results) ==
    LET findings == Get(scan_results, "findings", <<>>)
    IN  <<Part("## Detailed Findings and Analysis", <<>>)>> \o
        ( IF findings = <<>>
          THEN <<Part("No findings detected during automated analysis.", <<>>)>>
          ELSE FindingsLoop(1, findings) )

\* for section, content in gemini_analysis.items()
RECURSIVE GeminiSections(_, _)
GeminiSections(d, keys) ==
    IF keys = {} THEN <<>>
    ELSE LET section == CHOOSE x \in keys : TRUE
         IN  <<Part("### {section}", <<section>>), Part("content", <<d[section]>>)>>
             \o GeminiSections(d, keys \ {section})

GeminiAnalysis(scan_results) ==
    LET gemini_analysis == Get(scan_results, "gemini_analysis", EmptyDict)
    IN  IF DOMAIN gemini_analysis # {}
        THEN <<Part("## Gemini Analysis", <<>>)>> \o
             GeminiSections(gemini_analysis, DOMAIN gemini_analysis)
        ELSE <<>>

\* for ppath, content in repo_info.get('policy_files', {}).items()
RECURSIVE PolicySections(_, _)
PolicySections(d, keys) ==
    IF keys = {} THEN <<>>
    ELSE LET ppath == CHOOSE x \in keys : TRUE
         IN  <<Part("### {ppath}", <<ppath>>),
               Part("policy excerpt",
                    <<Take(Strip(d[ppath]), PolicyExcerptLimit),
                      IF Len(d[ppath]) > PolicyExcerptLimit THEN "..." ELSE "">>)>>
             \o PolicySections(d, keys \ {ppath})

RepositoryPolicies(scan_results) ==
    LET repo_info == Get(scan_results, "repo_info", EmptyDict)
        policy_files == Get(repo_info, "policy_files", EmptyDict)
    IN  IF DOMAIN policy_files # {}
        THEN <<Part("## Repository Policies (excerpts)", <<>>)>> \o
             PolicySections(policy_files, DOMAIN policy_files)
        ELSE <<>>

MethodologyAndLimitations ==
    <<Part("## Methodology", <<>>),
      Part("Automated scanners used:", <<>>),
      Part("- CodeT5-based static heuristics (pattern checks)", <<>>),
      Part("- SCA heuristics scanning requirements.txt and package.json", <<>>),
      Part("- Repository context extractor for README and policy files", <<>>),
      Part("## Limitations", <<>>),
      Part("- The CodeT5 analyzer currently only processes Python files, other languages may not be covered.", <<>>),
      Part("- SCA is heuristic-based and does not perform CVE lookups or transitive analysis.", <<>>),
      Part("- This automated report is intended as a starting point, manual review is recommended for high-severity findings.", <<>>),
      Part("-- End of report (generated locally) --", <<>>)>>

\* _local_generate: the list parts, which the function joins with blank lines
_local_generate(scan_results, template, report_type) ==
    <<Part("# {} (Local Generated)", <<TitleCase(report_type)>>),
      Part("newline", <<>>),
      Part("template", <<template>>)>> \o
    ExecutiveSummary(scan_results) \o
    ScanSummary(scan_results) \o
    DetailedFindings(scan_results) \o
    GeminiAnalysis(scan_results) \o
    RepositoryPolicies(scan_results) \o
    MethodologyAndLimitations

\* the text a responding Gemini model returns
GeminiText == <<Part("gemini response text", <<>>)>>

----------------------------------------------------------------------------
(* POST /api/generate-report: routes/main.py generate_report and           *)
(* ReportService.generate_report, one step per access to shared state      *)

\* the values uuid.uuid4() returns to the workers
ScanIds == 1..Cardinality(AnalyzeWorkers)

NoError == [type |-> "", cause |-> ""]

IdleReport ==
    [pc |-> "idle", scan_id |-> 0, report_type |-> "", generator |-> "",
     model |-> FALSE, gemini |-> "not called", loaded |-> "", scan_results |-> EmptyDict,
     template |-> <<>>, report_content |-> <<>>, error |-> NoError,
     response |-> NoResponse]

\* except Exception as e: raise Exception(f"Report generation failed: {str(e)}"),
\* which the route turns into a 500 response
ReportFailure(req, cause, message) ==
    [req EXCEPT !.pc = "done",
                !.error = [type |-> "Exception", cause |-> cause],
                !.response = ErrorResponse(<<"Report generation failed", message>>)]

\* f"{report_type}_{scan_id}_{timestamp}.docx", timestamp = now to the second
ReportFilename(report_type, scan_id, timestamp) ==
    [report_type |-> report_type, scan_id |-> scan_id, timestamp |-> timestamp]

\* _format_and_save_report: the document gets the title heading and the content
_format_and_save_report(reports, content, scan_id, report_type, timestamp) ==
    Put(reports, ReportFilename(report_type, scan_id, timestamp),
        [title   |-> <<"Security {} Report", TitleCase(report_type)>>,
         content |-> content])

\* generate_report returns report_path and the route sends the file
ReportSucceeded(req, content, timestamp) ==
    [req EXCEPT !.pc = "done",
                !.report_content = content,
                !.response = [status |-> 200,
                              file   |-> ReportFilename(req.report_type, req.scan_id,
                                                        timestamp)]]

\* what the request may ask for, and what ReportService.__init__ may find:
\* GEMINI_API_KEY unset, genai.configure / GenerativeModel raising, or a model
RequestedTypes == {"regulatory_compliance", "business_focused", "marketing_fluff"}

GeneratorStates == {"no key", "init failed", "ready"}

\* generate_report up to the call of the model: ReportService(), then
\* _load_scan_results, _load_template and _generate_with_gemini; without a model
\* the local generator's content is formatted and saved at once
ReportRequest(r, max) ==
    /\ rreq[r].pc \in {"idle", "done"}
    /\ n_reports < max
    /\ n_reports' = n_reports + 1
    /\ \E id \in ScanIds, type \in RequestedTypes, generator \in GeneratorStates :
        LET req == [IdleReport EXCEPT !.scan_id = id, !.report_type = type,
                                      !.generator = generator,
                                      !.model = (generator = "ready")]
            loaded == _load_scan_results(scanned_results, id)
            tmpl == _load_template(type)
        IN  IF loaded.outcome = "FileNotFoundError"
            THEN /\ rreq' = [rreq EXCEPT ![r] =
                        ReportFailure([req EXCEPT !.loaded = loaded.outcome],
                                      loaded.outcome, "Scan results not found for ID")]
                 /\ generated_reports' = generated_reports
            ELSE IF loaded.outcome # "ok"
            THEN /\ rreq' = [rreq EXCEPT ![r] =
                        ReportFailure([req EXCEPT !.loaded = loaded.outcome],
                                      loaded.outcome, "Expecting value")]
                 /\ generated_reports' = generated_reports
            ELSE IF tmpl.outcome # "ok"
            THEN /\ rreq' = [rreq EXCEPT ![r] =
                        ReportFailure([req EXCEPT !.loaded = "ok",
                                                  !.scan_results = loaded.value],
                                      tmpl.outcome, tmpl.message)]
                 /\ generated_reports' = generated_reports
            ELSE IF ~req.model
            THEN LET content == _local_generate(loaded.value, tmpl.value, type)
                 IN  /\ rreq' = [rreq EXCEPT ![r] =
                            ReportSucceeded([req EXCEPT !.loaded = "ok",
                                                        !.scan_results = loaded.value,
                                                        !.template = tmpl.value],
                                            content, now)]
                     /\ generated_reports' =
                            _format_and_save_report(generated_reports, content, id, type, now)
            ELSE /\ rreq' = [rreq EXCEPT ![r] =
                            [req EXCEPT !.pc = "generate_content",
                                        !.loaded = "ok",
                                        !.scan_results = loaded.value,
                                        !.template = tmpl.value,
                                        !.gemini = "called"]]
                 /\ generated_reports' = generated_reports
    /\ UNCHANGED <<normVars, otherVars, findings_dict, CURRENT_PLAN, now, next_uuid, pulled_code,
                   scanned_results, areq, saved_log>>

ReportLoad(r) == ReportRequest(r, MaxReports)

\* a _generate_with_gemini whose except clause re-raises
GeminiRespond_Reraise(r) ==
    /\ rreq[r].pc = "generate_content"
    /\ \E raises \in BOOLEAN :
        IF raises
        THEN /\ rreq' = [rreq EXCEPT ![r] =
                    ReportFailure([@ EXCEPT !.gemini = "raised"],
                                  "Exception", "Gemini generation failed")]
             /\ generated_reports' = generated_reports
        ELSE /\ rreq' = [rreq EXCEPT ![r] =
                    ReportSucceeded([@ EXCEPT !.gemini = "returned"], GeminiText, now)]
             /\ generated_reports' =
                    _format_and_save_report(generated_reports, GeminiText,
                                            rreq[r].scan_id, rreq[r].report_type, now)
    /\ UNCHANGED <<normVars, otherVars, findings_dict, CURRENT_PLAN, now, next_uuid, pulled_code,
                   scanned_results, areq, n_reports, saved_log>>

\* _generate_with_gemini: self.model.generate_content(prompt) returns a response
\* or raises, and the except clause falls back to _local_generate; the content
\* is then formatted and saved
GeminiRespond(r) ==
    /\ rreq[r].pc = "generate_content"
    /\ \E raises \in BOOLEAN :
        LET content == IF raises
                       THEN _local_generate(rreq[r].scan_results, rreq[r].template,
                                            rreq[r].report_type)
                       ELSE GeminiText
        IN  /\ rreq' = [rreq EXCEPT ![r] =
                    ReportSucceeded([@ EXCEPT !.gemini = IF raises THEN "raised"
                                                         ELSE "returned"],
                                    content, now)]
            /\ generated_reports' =
                    _format_and_save_report(generated_reports, content,
                                            rreq[r].scan_id, rreq[r].report_type, now)
    /\ UNCHANGED <<normVars, otherVars, findings_dict, CURRENT_PLAN, now, next_uuid, pulled_code,
                   scanned_results, areq, n_reports, saved_log>>

----------------------------------------------------------------------------
(* Normaliser harness: every bounded findings list and dictionary is an     *)
(* input; the actions apply the two functions in the order of               *)
(* analyze_codebase.                                                        *)

\* the service right after create_app()
ServiceIdle ==
    /\ CURRENT_PLAN = "basic"
    /\ now = 0
    /\ next_uuid = 1
    /\ pulled_code = EmptyDict
    /\ scanned_results = EmptyDict
    /\ generated_reports = EmptyDict
    /\ areq = [a \in AnalyzeWorkers |-> IdleAnalysis]
    /\ rreq = [r \in ReportWorkers |-> IdleReport]
    /\ n_reports = 0
    /\ saved_log = EmptyDict

\* the harnesses of the composer and the formatter, and the plan log, unused
OthersIdle ==
    /\ plan_log = <<>>
    /\ cpc = "idle"
    /\ c_scan_results = EmptyDict
    /\ c_content = <<>>
    /\ fpc = "idle"
    /\ f_content = <<>>
    /\ f_document = <<>>

NormInit ==
    /\ npc = "input"
    /\ in_findings \in SeqsUpTo(FindingUniverse, MaxFindings)
    /\ findings_dict \in DictUniverse \cup {DictAbsent}
    /\ enriched = <<>>
    /\ summary = _generate_summary(<<>>)
    /\ ServiceIdle
    /\ OthersIdle

NormEnrich ==
    /\ npc = "input"
    /\ enriched' = _enrich_findings(in_findings, findings_dict)
    /\ npc' = "enriched"
    /\ UNCHANGED <<in_findings, findings_dict, summary, serviceVars, otherVars>>

NormSummarize ==
    /\ npc = "enriched"
    /\ summary' = _generate_summary(enriched)
    /\ npc' = "summarized"
    /\ UNCHANGED <<in_findings, findings_dict, enriched, serviceVars, otherVars>>

NormNext == NormEnrich \/ NormSummarize

SpecNorm == NormInit /\ [][NormNext]_vars

----------------------------------------------------------------------------
(* The service: requests of the workers interleave at every access to the  *)
(* shared directories                                                      *)

----------------------------------------------------------------------------
(* report_service.py: _local_generate applied to records of the shape it    *)
(* reads (repo_info.found, findings, summary, gemini_analysis,              *)
(* repo_info.policy_files)                                                  *)

MaxPad == 2

\* a README text: lead blanks, n letters, trail blanks
ReadmeText(lead, n, trail) ==
    [i \in 1..(lead + n + trail) |-> IF i <= lead \/ i > lead + n THEN " " ELSE "a"]

\* README texts around the excerpt limit, and short ones
ReadmeTexts ==
    { ReadmeText(lead, n, trail) :
        lead \in 0..MaxPad,
        n \in (0..MaxPad) \cup ((ReadmeExcerptLimit - MaxPad)..(ReadmeExcerptLimit + MaxPad)),
        trail \in 0..MaxPad }

\* scan_results whose repo_info['found'] holds a README file with this content
ReadmeRecord(text) ==
    [repo_info |-> [found |-> [k \in {"README.md"} |-> [content |-> text]]],
     findings  |-> <<>>,
     summary   |-> _generate_summary(<<>>)]

GeminiOutputs == { EmptyDict, [k \in {"overview"} |-> "analysis text"] }

PolicyFiles == { EmptyDict, [k \in {"SECURITY.md"} |-> <<"p", "o", "l">>] }

\* scan_results with these findings, without a README
FindingsRecord(findings, gemini_analysis, policy_files) ==
    LET base == [repo_info |-> [policy_files |-> policy_files],
                 findings  |-> findings,
                 summary   |-> _generate_summary(findings)]
    IN  IF DOMAIN gemini_analysis = {} THEN base
        ELSE Put(base, "gemini_analysis", gemini_analysis)

ComposeInputs ==
    { ReadmeRecord(text) : text \in ReadmeTexts } \cup
    { FindingsRecord(findings, g, p) :
        findings \in SeqsUpTo(FindingUniverse, MaxFindings),
        g \in GeminiOutputs, p \in PolicyFiles }

ComposeInit ==
    /\ cpc = "input"
    /\ c_scan_results \in ComposeInputs
    /\ c_content = <<>>
    /\ plan_log = <<>>
    /\ fpc = "idle"
    /\ f_content = <<>>
    /\ f_document = <<>>
    /\ npc = "idle"
    /\ in_findings = <<>>
    /\ enriched = <<>>
    /\ summary = _generate_summary(<<>>)
    /\ findings_dict = ServiceDict
    /\ ServiceIdle

\* content = self._local_generate(scan_results, template, report_type)
ComposeApply ==
    /\ cpc = "input"
    /\ \E report_type \in ReportTypes :
         c_content' = _local_generate(c_scan_results, _load_template(report_type).value,
                                      report_type)
    /\ cpc' = "composed"
    /\ UNCHANGED <<normVars, findings_dict, serviceVars, plan_log, c_scan_results, formatVars>>

ComposeNext == ComposeApply

SpecCompose == ComposeInit /\ [][ComposeNext]_vars

----------------------------------------------------------------------------
(* report_service.py: the block loop of _format_and_save_report, on content *)
(* given as a sequence of characters                                        *)

MaxContent == 5

FormatChars == {"#", "a", " ", "\n"}

\* the least index at or after i where s has two consecutive newlines, 0 if none
RECURSIVE FindBlankLine(_, _)
FindBlankLine(s, i) ==
    IF i + 1 > Len(s) THEN 0
    ELSE IF s[i] = "\n" /\ s[i + 1] = "\n" THEN i
    ELSE FindBlankLine(s, i + 1)

\* content.split('\n\n'): leftmost, non-overlapping separators, empty pieces kept
RECURSIVE SplitBlocks(_)
SplitBlocks(s) ==
    LET i == FindBlankLine(s, 1)
    IN  IF i = 0 THEN <<s>>
        ELSE <<SubSeq(s, 1, i - 1)>> \o SplitBlocks(SubSeq(s, i + 2, Len(s)))

\* paragraph.startswith('#')
StartsWithMarker(paragraph) == paragraph # <<>> /\ Head(paragraph) = "#"

\* paragraph.count('#')
CountMarkers(paragraph) == Cardinality({ i \in 1..Len(paragraph) : paragraph[i] = "#" })

\* paragraph.strip('#'): the '#' characters at both ends removed
RECURSIVE LStripMarkers(_)
LStripMarkers(s) == IF s # <<>> /\ Head(s) = "#" THEN LStripMarkers(Tail(s)) ELSE s

RECURSIVE RStripMarkers(_)
RStripMarkers(s) ==
    IF s # <<>> /\ s[Len(s)] = "#" THEN RStripMarkers(SubSeq(s, 1, Len(s) - 1)) ELSE s

StripMarkers(s) == RStripMarkers(LStripMarkers(s))

\* doc.add_heading(text, level) and doc.add_paragraph(text), as entries of the document
Heading(text, level) == [kind |-> "heading", level |-> level, text |-> text]

Paragraph(text) == [kind |-> "paragraph", level |-> 0, text |-> text]

\* the body of the loop, for one paragraph that passed paragraph.strip()
FormatBlock(paragraph) ==
    IF StartsWithMarker(paragraph)
    THEN Heading(Strip(StripMarkers(paragraph)), CountMarkers(paragraph))
    ELSE Paragraph(Strip(paragraph))

\* for paragraph in paragraphs: if paragraph.strip(): ...
FormatBlocks(content) ==
    LET kept == SelectSeq(SplitBlocks(content), LAMBDA paragraph : Strip(paragraph) # <<>>)
    IN  [i \in 1..Len(kept) |-> FormatBlock(kept[i])]

FormatInit ==
    /\ fpc = "input"
    /\ f_content \in SeqsUpTo(FormatChars, MaxContent)
    /\ f_document = <<>>
    /\ plan_log = <<>>
    /\ cpc = "idle"
    /\ c_scan_results = EmptyDict
    /\ c_content = <<>>
    /\ npc = "idle"
    /\ in_findings = <<>>
    /\ enriched = <<>>
    /\ summary = _generate_summary(<<>>)
    /\ findings_dict = ServiceDict
    /\ ServiceIdle

\* paragraphs = content.split('\n\n') and the loop over them
FormatApply ==
    /\ fpc = "input"
    /\ f_document' = FormatBlocks(f_content)
    /\ fpc' = "formatted"
    /\ UNCHANGED <<normVars, findings_dict, serviceVars, plan_log, composeVars, f_content>>

FormatNext == FormatApply

SpecFormat == FormatInit /\ [][FormatNext]_vars

Init ==
    /\ npc = "input"
    /\ in_findings = <<>>
    /\ enriched = <<>>
    /\ summary = _generate_summary(<<>>)
    /\ findings_dict = ServiceDict
    /\ ServiceIdle
    /\ OthersIdle

AnalyzeStep(a) ==
    \/ AnalyzeReceive(a)
    \/ CloneFrom(a)
    \/ Extract(a)
    \/ Analyze(a)
    \/ SaveFlush(a)
    \/ SaveClose(a)

ReportStep(r) ==
    \/ ReportLoad(r)
    \/ GeminiRespond(r)

Next ==
    \/ \E a \in AnalyzeWorkers : AnalyzeStep(a)
    \/ \E r \in ReportWorkers : ReportStep(r)

Spec == Init /\ [][Next]_vars

----------------------------------------------------------------------------
(* Repeated report requests: one analysis request, a client that asks for   *)
(* reports again and again, and the wall clock of datetime.now()            *)

MaxRepeats == 2

MaxTime == 1

\* a second passes
Tick ==
    /\ now < MaxTime
    /\ now' = now + 1
    /\ UNCHANGED <<normVars, otherVars, findings_dict, CURRENT_PLAN, next_uuid, pulled_code,
                   scanned_results, generated_reports, areq, rreq, n_reports, saved_log>>

ReportAgain(r) == ReportRequest(r, MaxRepeats)

ReportsNext ==
    \/ AnalyzeStep("a1")
    \/ \E r \in ReportWorkers : ReportAgain(r)
    \/ \E r \in ReportWorkers : GeminiRespond(r)
    \/ Tick

SpecReports == Init /\ [][ReportsNext]_vars

----------------------------------------------------------------------------
(* routes/main.py: /api/change-plan and /api/get-plan on the global         *)
(* CURRENT_PLAN, with the log of the calls and their responses              *)

MaxPlanRequests == 4

\* request.get_json() of a change-plan call: a JSON object with or without the key
\* 'plan', or JSON that is not an object
PlanBodies ==
    { [json |-> "object", plan |-> Some(p)] : p \in Plans \cup {"premium"} } \cup
    { [json |-> "object", plan |-> None], [json |-> "array", plan |-> None] }

\* the response of a plan route: the status code and the 'plan' of the JSON, if any
PlanResponse(status, plan) == [status |-> status, plan |-> plan]

PlanCall(op, body, response) == [op |-> op, body |-> body, response |-> response]

\* a change_plan that stores the plan before it validates it
change_plan_AssignFirst(body) ==
    /\ Len(plan_log) < MaxPlanRequests
    /\ IF body.json # "object"
       THEN /\ plan_log' = Append(plan_log, PlanCall("change", body, PlanResponse(500, None)))
            /\ CURRENT_PLAN' = CURRENT_PLAN
       ELSE IF body.plan = None
       THEN /\ plan_log' = Append(plan_log, PlanCall("change", body, PlanResponse(400, None)))
            /\ CURRENT_PLAN' = CURRENT_PLAN
       ELSE IF body.plan[1] \notin {"basic", "full"}
       THEN /\ plan_log' = Append(plan_log, PlanCall("change", body, PlanResponse(400, None)))
            /\ CURRENT_PLAN' = body.plan[1]
       ELSE /\ plan_log' = Append(plan_log, PlanCall("change", body, PlanResponse(200, body.plan)))
            /\ CURRENT_PLAN' = body.plan[1]
    /\ UNCHANGED <<normVars, composeVars, formatVars, findings_dict, now, next_uuid,
                   pulled_code, scanned_results, generated_reports, areq, rreq, n_reports,
                   saved_log>>

\* change_plan: data.get('plan') raises on a body that is not an object (500), a plan
\* other than 'basic' and 'full' is answered with 400, otherwise the global is set
change_plan(body) ==
    /\ Len(plan_log) < MaxPlanRequests
    /\ IF body.json # "object"
       THEN /\ plan_log' = Append(plan_log, PlanCall("change", body, PlanResponse(500, None)))
            /\ CURRENT_PLAN' = CURRENT_PLAN
       ELSE IF body.plan = None \/ body.plan[1] \notin {"basic", "full"}
       THEN /\ plan_log' = Append(plan_log, PlanCall("change", body, PlanResponse(400, None)))
            /\ CURRENT_PLAN' = CURRENT_PLAN
       ELSE /\ plan_log' = Append(plan_log, PlanCall("change", body, PlanResponse(200, body.plan)))
            /\ CURRENT_PLAN' = body.plan[1]
    /\ UNCHANGED <<normVars, composeVars, formatVars, findings_dict, now, next_uuid,
                   pulled_code, scanned_results, generated_reports, areq, rreq, n_reports,
                   saved_log>>

\* get_plan: {'status': 'success', 'plan': CURRENT_PLAN}
get_plan ==
    /\ Len(plan_log) < MaxPlanRequests
    /\ plan_log' = Append(plan_log,
                          PlanCall("get", [json |-> "none", plan |-> None],
                                   PlanResponse(200, Some(CURRENT_PLAN))))
    /\ UNCHANGED <<normVars, composeVars, formatVars, findings_dict, serviceVars>>

PlanNext ==
    \/ \E body \in PlanBodies : change_plan(body)
    \/ get_plan

SpecPlan == Init /\ [][PlanNext]_vars

----------------------------------------------------------------------------
(* Properties of the normaliser (specification SpecNorm) *)

\* the dictionary entry a finding hits, if any
Hit(i) ==
    /\ findings_dict.exists
    /\ KeywordInDict(in_findings[i], findings_dict.data)

EntryOf(i) == findings_dict.data[in_findings[i]["shortform_keyword"]]

\* C1: for a finding whose shortform_keyword is in the knowledge base, every
\* field defined by both the finding and the entry keeps the finding's value
\* in the enriched finding (finding wins).
C1_FindingWins ==
    npc # "input" =>
        \A i \in 1..Len(in_findings) :
            Hit(i) =>
                \A x \in DOMAIN in_findings[i] \cap DOMAIN EntryOf(i) :
                    enriched[i][x] = in_findings[i][x]

\* C2: the enriched list has the length of the input; its i-th element keeps
\* every field of the i-th finding, with the finding's value for every field
\* the dictionary entry does not define, and is the i-th finding itself when
\* the keyword has no entry or the dictionary file is absent.
C2_EnrichPreservesFindings ==
    npc # "input" =>
        /\ Len(enriched) = Len(in_findings)
        /\ \A i \in 1..Len(in_findings) :
            /\ i \in DOMAIN enriched
            /\ DOMAIN in_findings[i] \subseteq DOMAIN enriched[i]
            /\ ~Hit(i) => enriched[i] = in_findings[i]
            /\ Hit(i) =>
                /\ DOMAIN enriched[i] = DOMAIN in_findings[i] \cup DOMAIN EntryOf(i)
                /\ \A x \in DOMAIN in_findings[i] \ DOMAIN EntryOf(i) :
                    enriched[i][x] = in_findings[i][x]

\* C2 witness: a two-element list with one hit (that gains a field) and one miss
C2_Witness ==
    /\ npc = "enriched"
    /\ Len(in_findings) = 2
    /\ Hit(1) /\ ~Hit(2)
    /\ DOMAIN EntryOf(1) \ DOMAIN in_findings[1] # {}
    /\ in_findings[1] # in_findings[2]

ClaimSeverity(f) == IF "severity" \in DOMAIN f THEN f["severity"] ELSE "UNKNOWN"

RECURSIVE SumOver(_, _)
SumOver(d, keys) ==
    IF keys = {} THEN 0
    ELSE LET k == CHOOSE x \in keys : TRUE
         IN  d[k] + SumOver(d, keys \ {k})

Permutations1(n) == { p \in [1..n -> 1..n] : \A i, j \in 1..n : i # j => p[i] # p[j] }

\* C3: total_findings is the length of the summarised list; severity_breakdown
\* maps each observed severity (UNKNOWN for a finding without one) to the
\* number of findings with it and has no other key; the counts sum to
\* total_findings and none is 0; every reordering of the list gives the same
\* summary; the empty list gives {0, {}}.
C3_SummaryCounts ==
    npc = "summarized" =>
        LET b == summary.severity_breakdown
            n == Len(enriched)
        IN  /\ summary.total_findings = n
            /\ DOMAIN b = { ClaimSeverity(enriched[i]) : i \in 1..n }
            /\ \A s \in DOMAIN b :
                /\ b[s] = Cardinality({ i \in 1..n : ClaimSeverity(enriched[i]) = s })
                /\ b[s] > 0
            /\ SumOver(b, DOMAIN b) = n
            /\ \A p \in Permutations1(n) :
                _generate_summary([i \in 1..n |-> enriched[p[i]]]) = summary
            /\ n = 0 => summary = [total_findings |-> 0, severity_breakdown |-> EmptyDict]

\* C3 witness: a summarised list with a repeated severity and a finding without severity
C3_Witness ==
    /\ npc = "summarized"
    /\ Len(enriched) = 2
    /\ "severity" \notin DOMAIN enriched[1]
    /\ "severity" \in DOMAIN enriched[2]
    /\ summary.severity_breakdown["UNKNOWN"] = 1

\* C3 witness of the empty list
C3_WitnessEmpty ==
    /\ npc = "summarized"
    /\ enriched = <<>>

\* threads of the server are scheduled fairly; nothing makes the Gemini service answer
FairSpec ==
    /\ Spec
    /\ \A a \in AnalyzeWorkers :
        WF_vars(CloneFrom(a) \/ Extract(a) \/ Analyze(a) \/ SaveFlush(a) \/ SaveClose(a))

----------------------------------------------------------------------------
(* Properties of the record store (specification Spec) *)

\* C4: once _save_scan_results(scan_id, record) has completed, _load_scan_results
\* of that id returns the record saved, in every later state and for every
\* request that loaded it; a scan id with no file fails with FileNotFoundError
\* and yields no record.
C4_SaveThenLoad ==
    /\ \A id \in DOMAIN saved_log :
        _load_scan_results(scanned_results, id) = [outcome |-> "ok", value |-> saved_log[id]]
    /\ \A id \in ScanIds :
        id >= next_uuid =>
            _load_scan_results(scanned_results, id) =
                [outcome |-> "FileNotFoundError", value |-> EmptyDict]
    /\ \A r \in ReportWorkers :
        /\ rreq[r].loaded = "ok" =>
            /\ rreq[r].scan_id \in DOMAIN saved_log
            /\ rreq[r].scan_results = saved_log[rreq[r].scan_id]
        /\ (rreq[r].pc = "done" /\ ResultsPath(rreq[r].scan_id) \notin DOMAIN scanned_results) =>
            /\ rreq[r].loaded = "FileNotFoundError"
            /\ rreq[r].error.cause = "FileNotFoundError"
            /\ rreq[r].scan_results = EmptyDict
            /\ rreq[r].response.status = 500

\* C4 witness: a report request loaded the record of scan 1 (whose README is
\* None or a text) while a second scan has been saved as well
C4_Witness ==
    /\ DOMAIN saved_log = {1, 2}
    /\ saved_log[1] # saved_log[2]
    /\ \E r \in ReportWorkers :
        /\ rreq[r].pc = "done"
        /\ rreq[r].loaded = "ok"
        /\ rreq[r].scan_id = 1
        /\ rreq[r].response.status = 200

\* C5: a load of a scan id, concurrent with its save or not, either fails as
\* not present or returns the complete record.
C5_AtomicPersistence ==
    \A r \in ReportWorkers : rreq[r].loaded \in {"", "ok", "FileNotFoundError"}

\* the record analyze_codebase builds from the request's own inputs alone
OwnRecord(req) ==
    LET tree == Remote(req.github_url)
        enriched_findings == _enrich_findings(tree.code_findings, findings_dict)
    IN  [scan_id         |-> req.scan_id,
         timestamp       |-> now,
         repository_path |-> RepoName(req.github_url),
         sector_hint     |-> req.sector_hint,
         plan_used       |-> req.plan,
         repository_info |-> [readme |-> tree.readme, policies |-> tree.policies,
                              dependencies |-> EmptyDict, documentation |-> EmptyDict],
         findings        |-> enriched_findings,
         summary         |-> _generate_summary(enriched_findings)]

\* C6: a finished analysis request either saved the record its own inputs
\* determine, or failed because its own remote failed; no step of another
\* request changes or breaks it.
C6_RequestsIndependent ==
    \A a \in AnalyzeWorkers :
        areq[a].pc = "done" =>
            \/ /\ areq[a].response.status = 200
               /\ saved_log[areq[a].scan_id] = OwnRecord(areq[a])
            \/ /\ areq[a].response.status = 500
               /\ areq[a].response.message = <<"Failed to clone repository", "remote failed">>

----------------------------------------------------------------------------
(* Properties of report generation (specifications Spec and FairSpec) *)

\* C7: when the model is absent (no key, or initialisation failed) or
\* generate_content raises, a request whose record and template loaded ends
\* with the local generator's content for that record, template and type, and
\* succeeds; a raising generator never fails the request.
C7_GeneratorFailureFallsBack ==
    \A r \in ReportWorkers :
        /\ ( /\ rreq[r].pc = "done"
             /\ rreq[r].loaded = "ok"
             /\ rreq[r].report_type \in ReportTypes
             /\ (rreq[r].generator \in {"no key", "init failed"} \/ rreq[r].gemini = "raised") ) =>
            /\ rreq[r].response.status = 200
            /\ rreq[r].report_content =
                _local_generate(rreq[r].scan_results, rreq[r].template, rreq[r].report_type)
            /\ rreq[r].report_content # GeminiText
        /\ rreq[r].gemini = "raised" =>
            /\ rreq[r].pc = "done"
            /\ rreq[r].error = NoError
            /\ rreq[r].response.status = 200

\* C7 witness: a request whose generate_content call raised and that succeeded
C7_Witness ==
    \E r \in ReportWorkers :
        /\ rreq[r].pc = "done"
        /\ rreq[r].generator = "ready"
        /\ rreq[r].gemini = "raised"
        /\ rreq[r].response.status = 200

\* C8: a report request that has called the generator eventually completes.
C8_ReportEventuallyCompletes ==
    \A r \in ReportWorkers :
        (rreq[r].pc = "generate_content") ~> (rreq[r].pc = "done")

\* C9: generate_report with an unknown report_type fails with the
\* unknown-report-type error and writes nothing.
C9_UnknownReportTypeError ==
    \A r \in ReportWorkers :
        (rreq[r].pc = "done" /\ rreq[r].report_type \notin ReportTypes) =>
            /\ rreq[r].response.status = 500
            /\ rreq[r].error.cause = "ValueError"
            /\ rreq[r].response.message = <<"Report generation failed", "Unknown report type">>

\* C10: the locally composed Executive Summary shows the excerpt of the record's
\* repository_info.readme when that README is a non-empty text, and the fixed
\* "no README" statement only when the record has none.
C10_ExecutiveSummaryFromReadme ==
    \A r \in ReportWorkers :
        ( /\ rreq[r].pc = "done"
          /\ rreq[r].response.status = 200
          /\ rreq[r].gemini # "returned" ) =>
            LET readme == rreq[r].scan_results["repository_info"].readme
                content == rreq[r].report_content
                kinds == { content[i].kind : i \in 1..Len(content) }
                has_readme == readme # None /\ readme[1] # <<>>
            IN  /\ has_readme =>
                    \E i \in 1..Len(content) :
                        /\ content[i].kind = "readme excerpt"
                        /\ content[i].text[1] = Take(Strip(readme[1]), ReadmeExcerptLimit)
                /\ ("No README found, executive summary is derived from scan findings and templates."
                        \in kinds) <=> ~has_readme

\* the parts of a composed content with this kind
PartsOfKind(content, kind) == SelectSeq(content, LAMBDA p : p.kind = kind)

\* the README text of a composer input, as an optional
ReadmeOf(scan_results) ==
    LET found == Get(Get(scan_results, "repo_info", EmptyDict), "found", EmptyDict)
    IN  IF "README.md" \in DOMAIN found THEN Some(found["README.md"].content) ELSE None

\* C11: for every README text r used for the Executive Summary: if len(r) > 1200 the
\* excerpt is exactly 1200 characters long and is followed by the marker "...", if
\* len(r) <= 1200 no marker follows, and the marker is present if and only if
\* characters were cut from the excerpt
C11_ReadmeTruncationMarker ==
    (cpc = "composed" /\ ReadmeOf(c_scan_results) \notin {None, Some(<<>>)}) =>
        LET r == ReadmeOf(c_scan_results)[1]
            excerpts == PartsOfKind(c_content, "readme excerpt")
        IN  /\ Len(excerpts) = 1
            /\ LET excerpt == excerpts[1].text[1]
                   marker == excerpts[1].text[2]
               IN  /\ Len(r) > ReadmeExcerptLimit =>
                         (Len(excerpt) = ReadmeExcerptLimit /\ marker = "...")
                   /\ Len(r) <= ReadmeExcerptLimit => marker = ""
                   /\ marker = "..." <=> Len(excerpt) < Len(Strip(r))

\* the section headings of the locally composed report, in the order of the claim
SectionOrder ==
    <<"# {} (Local Generated)", "template", "## Executive Summary", "## Scan Summary",
      "## Detailed Findings and Analysis", "## Gemini Analysis",
      "## Repository Policies (excerpts)", "## Methodology", "## Limitations",
      "-- End of report (generated locally) --">>

\* the section headings of a content, in the order they occur
SectionsOf(content) ==
    LET heads == SelectSeq(content,
                           LAMBDA p : \E i \in 1..Len(SectionOrder) : SectionOrder[i] = p.kind)
    IN  [i \in 1..Len(heads) |-> heads[i].kind]

\* the record carries generator output
HasGeneratorOutput(scan_results) ==
    DOMAIN Get(scan_results, "gemini_analysis", EmptyDict) # {}

\* the record carries policy files: under the key analyze_codebase writes
\* (repository_info.policies) or under the key the composer reads
HasPolicyFiles(scan_results) ==
    \/ DOMAIN Get(Get(scan_results, "repository_info", EmptyDict), "policies", EmptyDict) # {}
    \/ DOMAIN Get(Get(scan_results, "repo_info", EmptyDict), "policy_files", EmptyDict) # {}

ExpectedSections(scan_results) ==
    SelectSeq(SectionOrder,
              LAMBDA h : /\ h = "## Gemini Analysis" => HasGeneratorOutput(scan_results)
                         /\ h = "## Repository Policies (excerpts)" => HasPolicyFiles(scan_results))

\* C12: a locally composed report has its sections in the fixed order title, template,
\* Executive Summary, Scan Summary, Detailed Findings, generator analysis, policy
\* excerpts, Methodology, Limitations, closing marker, each once, the generator
\* analysis exactly when the record carries generator output and the policy excerpts
\* exactly when the record carries policy files.
C12_SectionOrder ==
    \A r \in ReportWorkers :
        ( /\ rreq[r].pc = "done"
          /\ rreq[r].response.status = 200
          /\ rreq[r].gemini # "returned" ) =>
            SectionsOf(rreq[r].report_content) = ExpectedSections(rreq[r].scan_results)

\* the positions of the parts of a content with this kind, in increasing order
RECURSIVE PositionsFrom(_, _, _)
PositionsFrom(content, kind, i) ==
    IF i > Len(content) THEN <<>>
    ELSE ( IF content[i].kind = kind THEN <<i>> ELSE <<>> ) \o
         PositionsFrom(content, kind, i + 1)

PositionsOf(content, kind) == PositionsFrom(content, kind, 1)

\* C13: the Detailed Findings section of a locally composed report has exactly one
\* subsection per finding of the record, numbered 1..n in the order of the record's
\* findings, and the fixed "no findings" line appears if and only if n = 0, where no
\* subsection is rendered.
C13_OneSubsectionPerFinding ==
    cpc = "composed" =>
        LET findings == Get(c_scan_results, "findings", <<>>)
            n == Len(findings)
            section == PositionsOf(c_content, "## Detailed Findings and Analysis")
            subs == PositionsOf(c_content, "### {idx}. {title} ({short})")
            none == PositionsOf(c_content, "No findings detected during automated analysis.")
            after == { i \in 1..Len(c_content) :
                         /\ i > section[1]
                         /\ \E j \in 1..Len(SectionOrder) : SectionOrder[j] = c_content[i].kind }
            inside(i) == section[1] < i /\ \A j \in after : i < j
        IN  /\ Len(section) = 1
            /\ Len(subs) = n
            /\ \A k \in 1..n :
                 /\ inside(subs[k])
                 /\ c_content[subs[k]].text[1] = k
                 /\ c_content[subs[k]].text[2] =
                        OrElse(Opt(findings[k], "title"), Opt(findings[k], "shortform_keyword"))
                 /\ c_content[subs[k]].text[3] = Opt(findings[k], "shortform_keyword")
                 /\ c_content[subs[k] + 1] = Part("- Severity: {sev}", <<Opt(findings[k], "severity")>>)
            /\ Len(none) = (IF n = 0 THEN 1 ELSE 0)
            /\ \A k \in 1..Len(none) : inside(none[k])

\* C13 witness: a composed report of a record with two different findings
C13_Witness ==
    /\ cpc = "composed"
    /\ Len(c_scan_results.findings) = 2
    /\ c_scan_results.findings[1] # c_scan_results.findings[2]
    /\ Len(PartsOfKind(c_content, "### {idx}. {title} ({short})")) = 2

\* C13 witness: a composed report of a record without findings
C13_WitnessEmpty ==
    /\ cpc = "composed"
    /\ c_scan_results.findings = <<>>
    /\ Len(PartsOfKind(c_content, "No findings detected during automated analysis.")) = 1

\* the highest heading level of the document format (styles Heading 1 .. Heading 9)
MaxHeadingLevel == 9

\* the number of '#' characters a block starts with
RECURSIVE LeadingMarkers(_)
LeadingMarkers(s) == IF s # <<>> /\ Head(s) = "#" THEN 1 + LeadingMarkers(Tail(s)) ELSE 0

\* the document the claim describes for a content
ClaimBlocks(content) ==
    LET kept == SelectSeq(SplitBlocks(content), LAMBDA block : Strip(block) # <<>>)
        level(block) == IF LeadingMarkers(block) > MaxHeadingLevel THEN MaxHeadingLevel
                        ELSE LeadingMarkers(block)
    IN  [i \in 1..Len(kept) |->
            IF StartsWithMarker(kept[i])
            THEN Heading(Strip(LStripMarkers(kept[i])), level(kept[i]))
            ELSE Paragraph(Strip(kept[i]))]

\* C14: the formatter splits content on blank lines, drops empty blocks, makes a block
\* a heading exactly when it starts with '#', with level the number of leading '#'
\* (capped at the format's maximum) and text the block without its leading markers and
\* surrounding whitespace, and makes every other block a trimmed paragraph, a later '#'
\* in a heading block changes neither level nor text.
C14_FormatterBlocks ==
    fpc = "formatted" => f_document = ClaimBlocks(f_content)

\* request r completes successfully in this step
Completes(r) ==
    /\ rreq'[r].pc = "done"
    /\ rreq'[r].response.status = 200
    /\ (n_reports' # n_reports \/ rreq[r].pc = "generate_content")
    /\ \A q \in ReportWorkers \ {r} : rreq'[q] = rreq[q]

\* C15: every successful report request yields its own document: a request that
\* completes writes a document the reports area did not hold, so that k successful
\* calls leave k distinct documents and none overwrites another's.
C15_OneDocumentPerRequest ==
    [][ \A r \in ReportWorkers :
            Completes(r) =>
                /\ rreq'[r].response.file \notin DOMAIN generated_reports
                /\ Cardinality(DOMAIN generated_reports') =
                        Cardinality(DOMAIN generated_reports) + 1 ]_vars

\* the plan of the last successful change-plan call of a log, 'basic' if there is none
RECURSIVE LastChangedPlan(_)
LastChangedPlan(log) ==
    IF log = <<>> THEN "basic"
    ELSE LET call == log[Len(log)]
         IN  IF call.op = "change" /\ call.response.status = 200 THEN call.body.plan[1]
             ELSE LastChangedPlan(SubSeq(log, 1, Len(log) - 1))

\* C16: the current plan is always basic or full: it starts as basic, change-plan with
\* basic or full sets it to that value, change-plan with any other value is answered
\* with 400 and leaves the plan unchanged, and get-plan returns the value set by the
\* most recent successful change-plan.
C16_PlanIsBasicOrFull ==
    /\ CURRENT_PLAN \in {"basic", "full"}
    /\ CURRENT_PLAN = LastChangedPlan(plan_log)
    /\ \A i \in 1..Len(plan_log) :
         LET call == plan_log[i]
             before == LastChangedPlan(SubSeq(plan_log, 1, i - 1))
             after == LastChangedPlan(SubSeq(plan_log, 1, i))
         IN  /\ (call.op = "change" /\ call.body.json = "object") =>
                    IF call.body.plan # None /\ call.body.plan[1] \in {"basic", "full"}
                    THEN call.response.status = 200 /\ after = call.body.plan[1]
                    ELSE call.response.status = 400 /\ after = before
             /\ (call.op = "change" /\ call.response.status # 200) => after = before
             /\ call.op = "get" =>
                    call.response = PlanResponse(200, Some(before))

\* C16 witness: the plan was set to full, a change to another value was answered with
\* 400, and a later get-plan returned full
C16_Witness ==
    /\ CURRENT_PLAN = "full"
    /\ \E i, j, k \in 1..Len(plan_log) :
         /\ i < j /\ j < k
         /\ plan_log[i].op = "change" /\ plan_log[i].body.plan = Some("full")
         /\ plan_log[j].op = "change" /\ plan_log[j].body.plan = Some("premium")
         /\ plan_log[j].response.status = 400
         /\ plan_log[k].op = "get" /\ plan_log[k].response.plan = Some("full")

====
